---- MODULE Spec2Model ----
(***************************************************************************)
(* A model of the ray tracer's camera, shape, sphere and intersection      *)
(* code.  f64 values are fixed-point integers: the real number r is the    *)
(* integer r * Scale.  Matrix entries are plain integers.                  *)
(***************************************************************************)
EXTENDS Integers, Sequences, FiniteSets, TLC

VARIABLES camera, shape, sphere, xs, render, failures, last

vars == <<camera, shape, sphere, xs, render, failures, last>>

(***************************************************************************)
(* Bounds of the model.                                                    *)
(***************************************************************************)
\* largest hsize and vsize of a camera
MaxSize == 2
\* longest Intersections collection handed to hit()
MaxLen == 3
\* ray parameters of the hand-built intersections range over -2..MaxT
MaxT == 2

\* fixed-point denominator of the f64 values
Scale == 12

(***************************************************************************)
(* matrices: 4x4 matrices, inverse() failing on a zero determinant,        *)
(* application to points (w = 1) and vectors (w = 0).                      *)
(***************************************************************************)
Row(a, b, c, d) == <<a, b, c, d>>

\* F applied to the value of v, with v computed once: a let binding
Eval(v, F(_)) == CHOOSE r \in {F(x) : x \in {v}} : TRUE

IDENTITY == <<Row(1, 0, 0, 0), Row(0, 1, 0, 0), Row(0, 0, 1, 0), Row(0, 0, 0, 1)>>

\* translation(1, 0, -2) and its inverse
TRANSLATE == <<Row(1, 0, 0, 1), Row(0, 1, 0, 0), Row(0, 0, 1, -2), Row(0, 0, 0, 1)>>
UNTRANSLATE == <<Row(1, 0, 0, -1), Row(0, 1, 0, 0), Row(0, 0, 1, 2), Row(0, 0, 0, 1)>>

\* scaling(0, 1, 1): determinant zero
FLATTEN == <<Row(0, 0, 0, 0), Row(0, 1, 0, 0), Row(0, 0, 1, 0), Row(0, 0, 0, 1)>>

\* an invertible matrix that is not affine (last row is not 0 0 0 1), and its inverse
SKEW == <<Row(1, 0, 0, 0), Row(0, 1, 0, 0), Row(0, 0, 1, 0), Row(1, -1, 0, 1)>>
UNSKEW == <<Row(1, 0, 0, 0), Row(0, 1, 0, 0), Row(0, 0, 1, 0), Row(-1, 1, 0, 1)>>

\* the matrices the callers hand to set_transform
TransformSet == {IDENTITY, TRANSLATE, FLATTEN, SKEW}

\* the matrices of the model: TransformSet and the inverses of its members
Matrices == TransformSet \cup {UNTRANSLATE, UNSKEW}

Mul(A, B) ==
    [i \in 1..4 |-> [j \in 1..4 |->
        A[i][1] * B[1][j] + A[i][2] * B[2][j] + A[i][3] * B[3][j] + A[i][4] * B[4][j]]]

Det2(a, b, c, d) == a * d - b * c

Det3(M, r, c) ==
    \* determinant of the 3x3 minor of M without row r and column c
    LET rs == SelectSeq(<<1, 2, 3, 4>>, LAMBDA i : i # r)
        cs == SelectSeq(<<1, 2, 3, 4>>, LAMBDA j : j # c)
        e(i, j) == M[rs[i]][cs[j]]
    IN  e(1, 1) * Det2(e(2, 2), e(2, 3), e(3, 2), e(3, 3))
        - e(1, 2) * Det2(e(2, 1), e(2, 3), e(3, 1), e(3, 3))
        + e(1, 3) * Det2(e(2, 1), e(2, 2), e(3, 1), e(3, 2))

Determinant(M) ==
    M[1][1] * Det3(M, 1, 1) - M[1][2] * Det3(M, 1, 2)
    + M[1][3] * Det3(M, 1, 3) - M[1][4] * Det3(M, 1, 4)

NoMatrix == <<>>

\* Transform::inverse() of each matrix of the model: Err(NoInverseError) on a zero
\* determinant, else the matrix whose product with M is the identity
InverseOf ==
    [M \in Matrices |->
        IF Determinant(M) = 0
        THEN [ok |-> FALSE, val |-> NoMatrix]
        ELSE [ok |-> TRUE, val |-> CHOOSE N \in Matrices : Mul(M, N) = IDENTITY]]

Inverse(M) == InverseOf[M]

\* matrix * homogeneous 4-tuple
MulTuple(M, p) ==
    [i \in 1..4 |-> M[i][1] * p[1] + M[i][2] * p[2] + M[i][3] * p[3] + M[i][4] * p[4]]

Point(x, y, z) == <<x, y, z, Scale>>
Vector(x, y, z) == <<x, y, z, 0>>

\* Transform * Point: the product is cast back to a Point, which fails unless w = 1
MulPoint(M, p) ==
    LET q == MulTuple(M, p)
    IN  [ok |-> q[4] = Scale, val |-> q]

\* Transform * Vector: the product is cast back to a Vector, which fails unless w = 0
MulVector(M, v) ==
    LET q == MulTuple(M, v)
    IN  [ok |-> q[4] = 0, val |-> q]

Sub(p, q) == [i \in 1..4 |-> p[i] - q[i]]

\* dot product of two fixed-point tuples, in units of 1 / Scale^2
Dot(v, w) == v[1] * w[1] + v[2] * w[2] + v[3] * w[3] + v[4] * w[4]

RECURSIVE SqrtBetween(_, _, _)
SqrtBetween(n, lo, hi) ==
    \* the largest r in lo..hi with r * r <= n, given lo * lo <= n < (hi + 1)^2
    IF lo = hi THEN lo
    ELSE LET mid == (lo + hi + 1) \div 2
         IN  IF mid * mid <= n THEN SqrtBetween(n, mid, hi) ELSE SqrtBetween(n, lo, mid - 1)

\* f64::sqrt, rounded down to the fixed-point grid
Sqrt(n) == SqrtBetween(n, 0, 46340)

\* Vector::normalize()
Normalize(v) ==
    Eval(Sqrt(Dot(v, v)),
         LAMBDA m : IF m = 0 THEN v ELSE [i \in 1..4 |-> (v[i] * Scale) \div m])

Ray(origin, direction) == [origin |-> origin, direction |-> direction]

\* Ray::transformed(m): origin and direction both mapped, failing when a cast fails
Transformed(ray, M) ==
    Eval(<<MulPoint(M, ray.origin), MulVector(M, ray.direction)>>,
         LAMBDA od : [ok |-> od[1].ok /\ od[2].ok, val |-> Ray(od[1].val, od[2].val)])

(***************************************************************************)
(* canvas: colors and the pixel buffer.                                    *)
(***************************************************************************)
Color(red, green, blue) == <<red, green, blue>>

BLACK == Color(0, 0, 0)

Cells(width, height) == (0..(width - 1)) \X (0..(height - 1))

\* Canvas::new(width, height): every pixel black
CanvasNew(width, height) ==
    [width |-> width, height |-> height, pixels |-> [c \in Cells(width, height) |-> BLACK]]

NoCanvas == [width |-> 0, height |-> 0, pixels |-> <<>>]

\* Canvas::write_pixel(x, y, color): fails on a coordinate outside the buffer
WritePixel(canvas, x, y, color) ==
    IF x >= canvas.width \/ y >= canvas.height
    THEN [ok |-> FALSE, val |-> canvas]
    ELSE [ok |-> TRUE, val |-> [canvas EXCEPT !.pixels[<<x, y>>] = color]]

(***************************************************************************)
(* intersections                                                           *)
(***************************************************************************)
\* Intersection::new(t, object)
Intersection(t, object) == [t |-> t, object |-> object]

None == [some |-> FALSE, val |-> <<>>]
Some(v) == [some |-> TRUE, val |-> v]

RECURSIVE MinBy(_, _)
MinBy(s, best) ==
    \* Iterator::min_by over s with total_cmp on t: of equal minima the first is kept
    IF s = <<>> THEN best
    ELSE IF best.some /\ ~(Head(s).t < best.val.t)
         THEN MinBy(Tail(s), best)
         ELSE MinBy(Tail(s), Some(Head(s)))

\* hit() keeping only the strictly positive entries
HitPositive(is) == MinBy(SelectSeq(is, LAMBDA i : i.t > 0), None)

\* Intersections::hit()
Hit(is) == MinBy(SelectSeq(is, LAMBDA i : i.t >= 0), None)

(***************************************************************************)
(* spheres                                                                 *)
(***************************************************************************)
\* Sphere::new()
SphereNewValue == [transform |-> IDENTITY]

Ok(v) == [tag |-> "Ok", err |-> "", val |-> v]
Err(e) == [tag |-> "Err", err |-> e, val |-> <<>>]

\* the roots of the quadratic, as the else branch of Sphere::intersect computes them
Roots(a, b, discriminant) ==
    Eval(Sqrt(discriminant),
         LAMBDA root : <<((-b - root) * Scale) \div (2 * a), ((-b + root) * Scale) \div (2 * a)>>)

\* a, b, c of the quadratic for the local ray, in units of 1 / Scale^2
Quadratic(ray2) ==
    LET sphere_to_ray == Sub(ray2.origin, Point(0, 0, 0))
        a == Dot(ray2.direction, ray2.direction)
        b == 2 * Dot(ray2.direction, sphere_to_ray)
        c == Dot(sphere_to_ray, sphere_to_ray) - Scale * Scale
    IN  Eval(<<a, b, c>>,
             LAMBDA q : [a |-> q[1], b |-> q[2], c |-> q[3],
                         discriminant |-> q[2] * q[2] - 4 * q[1] * q[3]])

\* intersect() treating a zero discriminant as a miss
SphereIntersectNoTangent(sph, ray) ==
    Eval(Inverse(sph.transform),
         LAMBDA inv :
            IF ~inv.ok THEN Err("NoInverse")
            ELSE Eval(Transformed(ray, inv.val),
                      LAMBDA ray2 :
                         IF ~ray2.ok THEN Err("CastingMatrix")
                         ELSE Eval(Quadratic(ray2.val),
                                   LAMBDA q :
                                      IF q.discriminant <= 0 THEN Ok(<<>>)
                                      ELSE Eval(Roots(q.a, q.b, q.discriminant),
                                                LAMBDA ts :
                                                   Ok(<<Intersection(ts[1], sph),
                                                        Intersection(ts[2], sph)>>)))))

\* Sphere::intersect(ray)
SphereIntersect(sph, ray) ==
    Eval(Inverse(sph.transform),
         LAMBDA inv :
            IF ~inv.ok THEN Err("NoInverse")
            ELSE Eval(Transformed(ray, inv.val),
                      LAMBDA ray2 :
                         IF ~ray2.ok THEN Err("CastingMatrix")
                         ELSE Eval(Quadratic(ray2.val),
                                   LAMBDA q :
                                      IF q.discriminant < 0 THEN Ok(<<>>)
                                      ELSE Eval(Roots(q.a, q.b, q.discriminant),
                                                LAMBDA ts :
                                                   Ok(<<Intersection(ts[1], sph),
                                                        Intersection(ts[2], sph)>>)))))

(***************************************************************************)
(* world: the collaborator of render.  It owns one sphere; the color along *)
(* a ray is the shade of the nearest hit, black on a miss, and an error    *)
(* when the intersection fails.                                            *)
(***************************************************************************)
Shade(i) == Color(i.t, 0, 0)

\* World::color_from(ray)
ColorFrom(world, ray) ==
    Eval(SphereIntersect(world, ray),
         LAMBDA is :
            IF is.tag = "Err" THEN Err(is.err)
            ELSE Eval(Hit(is.val),
                      LAMBDA h : IF h.some THEN Ok(Shade(h.val)) ELSE Ok(BLACK)))

(***************************************************************************)
(* camera                                                                  *)
(***************************************************************************)
\* the one field of view the cameras are built with, and tan(field_of_view / 2)
FieldOfView == "PI/2"
TanHalf(field_of_view) == Scale

\* Camera::new(hsize, vsize, field_of_view)
CameraNewValue(hsize, vsize, field_of_view) ==
    LET half_view == TanHalf(field_of_view)
        wide == hsize >= vsize        \* aspect >= 1.0
        half_width == IF wide THEN half_view ELSE (half_view * hsize) \div vsize
        half_height == IF wide THEN (half_view * vsize) \div hsize ELSE half_view
        pixel_size == (half_width * 2) \div hsize
    IN  [hsize |-> hsize, vsize |-> vsize, field_of_view |-> field_of_view,
         transform |-> IDENTITY, inverse |-> Some(IDENTITY),
         half_width |-> half_width, half_height |-> half_height,
         pixel_size |-> pixel_size]

\* Camera::ray_for_pixel(x, y)
RayForPixel(cam, x, y) ==
    LET xoffset == ((2 * x + 1) * cam.pixel_size) \div 2
        yoffset == ((2 * y + 1) * cam.pixel_size) \div 2
        world_x == cam.half_width - xoffset
        world_y == cam.half_height - yoffset
    IN  IF x > cam.hsize \/ y > cam.vsize THEN Err("PixelOutOfBounds")
        ELSE IF ~cam.inverse.some THEN Err("NoInverse")
        ELSE Eval(MulPoint(cam.inverse.val, Point(world_x, world_y, -Scale)),
                  LAMBDA pixel :
                     IF ~pixel.ok THEN Err("CastingTransform")
                     ELSE Eval(MulPoint(cam.inverse.val, Point(0, 0, 0)),
                               LAMBDA origin :
                                  IF ~origin.ok THEN Err("CastingTransform")
                                  ELSE Ok(Ray(origin.val,
                                              Normalize(Sub(pixel.val, origin.val))))))

\* Camera::set_transform(transform): the camera afterwards
CameraWithTransform(cam, transform) ==
    LET assigned == [cam EXCEPT !.transform = transform]
        inv == Inverse(assigned.transform)
    IN  IF inv.ok THEN [assigned EXCEPT !.inverse = Some(inv.val)] ELSE assigned

\* what the loop body of Camera::render yields; step and cause name the call that
\* failed and the error it returned
Failed(err, step, cause) ==
    [tag |-> "Err", err |-> err, step |-> step, cause |-> cause, image |-> NoCanvas]

Panicked ==
    [tag |-> "Panic", err |-> "pixel out of bounds", step |-> "write_pixel", cause |-> "",
     image |-> NoCanvas]

Written(image) == [tag |-> "Ok", err |-> "", step |-> "", cause |-> "", image |-> image]

\* write_pixel painting the row from x to its end
FillRow(canvas, x, y, color) ==
    Eval(WritePixel(canvas, x, y, color),
         LAMBDA w : [ok |-> w.ok,
                     val |-> [w.val EXCEPT !.pixels =
                                [c \in DOMAIN @ |->
                                    IF c[2] = y /\ c[1] >= x THEN color ELSE @[c]]]])

\* the loop body with the coordinates of the write exchanged
PixelBodyTransposed(cam, world, image, x, y) ==
    Eval(RayForPixel(cam, x, y),
         LAMBDA ray :
            IF ray.tag = "Err" THEN Failed("RayForPixel", "ray_for_pixel", ray.err)
            ELSE Eval(ColorFrom(world, ray.val),
                      LAMBDA color :
                         IF color.tag = "Err" THEN Failed("ColorAt", "color_from", color.err)
                         ELSE Eval(WritePixel(image, y, x, color.val),
                                   LAMBDA written :
                                      IF ~written.ok THEN Panicked ELSE Written(written.val))))

\* the loop body with a write that paints the row from x to its end
PixelBodyFillRow(cam, world, image, x, y) ==
    Eval(RayForPixel(cam, x, y),
         LAMBDA ray :
            IF ray.tag = "Err" THEN Failed("RayForPixel", "ray_for_pixel", ray.err)
            ELSE Eval(ColorFrom(world, ray.val),
                      LAMBDA color :
                         IF color.tag = "Err" THEN Failed("ColorAt", "color_from", color.err)
                         ELSE Eval(FillRow(image, x, y, color.val),
                                   LAMBDA written :
                                      IF ~written.ok THEN Panicked ELSE Written(written.val))))

\* one iteration of the loop body of Camera::render at pixel (x, y)
PixelBody(cam, world, image, x, y) ==
    Eval(RayForPixel(cam, x, y),
         LAMBDA ray :
            IF ray.tag = "Err" THEN Failed("RayForPixel", "ray_for_pixel", ray.err)
            ELSE Eval(ColorFrom(world, ray.val),
                      LAMBDA color :
                         IF color.tag = "Err" THEN Failed("ColorAt", "color_from", color.err)
                         ELSE Eval(WritePixel(image, x, y, color.val),
                                   LAMBDA written :
                                      IF ~written.ok THEN Panicked ELSE Written(written.val))))

\* the pixels in the order of the two nested loops of Camera::render
RowMajor(hsize, vsize) ==
    [k \in 1..(hsize * vsize) |-> <<(k - 1) % hsize, (k - 1) \div hsize>>]

(***************************************************************************)
(* shapes                                                                  *)
(***************************************************************************)
Materials == {"default", "ambient"}
Models == {"TestModel", "Sphere"}

\* Shape::new(model)
ShapeNewValue(model) ==
    [transform |-> IDENTITY, inverse |-> IDENTITY, material |-> "default", model |-> model]

\* set_transform storing the transform before the inversion is known to succeed
ShapeWithTransformAssignFirst(shp, transform) ==
    LET inv == Inverse(transform)
    IN  IF inv.ok THEN [shp EXCEPT !.transform = transform, !.inverse = inv.val]
        ELSE [shp EXCEPT !.transform = transform]

\* Shape::set_transform(transform): the shape afterwards
ShapeWithTransform(shp, transform) ==
    LET inv == Inverse(transform)
    IN  IF inv.ok THEN [shp EXCEPT !.transform = transform, !.inverse = inv.val] ELSE shp

(***************************************************************************)
(* The state machine.  last is the most recent call and what it returned;  *)
(* render is the position of a render in progress; failures holds the two  *)
(* most recent failed renders, the latest first: the error each returned,  *)
(* the call that failed and the error of that call.                        *)
(***************************************************************************)
Call(op, arg, ret) == [op |-> op, arg |-> arg, ret |-> ret]

Idle ==
    [pc |-> "idle", x |-> 0, y |-> 0, image |-> NoCanvas, visited |-> <<>>, pending |-> {}]

Sizes == 1..MaxSize

Cameras == {CameraNewValue(h, v, FieldOfView) : h \in Sizes, v \in Sizes}

InitWith(cameras, shapes) ==
    /\ camera \in cameras
    /\ shape \in shapes
    /\ sphere = SphereNewValue
    /\ xs = <<>>
    /\ render = Idle
    /\ failures = <<>>
    /\ last = Call("new", <<>>, Ok(<<>>))

\* a render borrows the camera and the world: neither changes while it runs
CameraSetTransform(transform) ==
    /\ render.pc = "idle"
    /\ camera' = CameraWithTransform(camera, transform)
    /\ last' = Call("Camera.set_transform", transform,
                    IF Inverse(transform).ok THEN Ok(<<>>) ELSE Err("NoInverse"))
    /\ UNCHANGED <<shape, sphere, xs, render, failures>>

CameraRayForPixel(x, y) ==
    /\ render.pc = "idle"
    /\ last' = Call("Camera.ray_for_pixel", <<x, y>>, RayForPixel(camera, x, y))
    /\ UNCHANGED <<camera, shape, sphere, xs, render, failures>>

ShapeSetTransform(transform) ==
    /\ shape' = ShapeWithTransform(shape, transform)
    /\ last' = Call("Shape.set_transform", transform,
                    IF Inverse(transform).ok THEN Ok(<<>>) ELSE Err("NoInverse"))
    /\ UNCHANGED <<camera, sphere, xs, render, failures>>

\* an assignment to the public field material of the shape
ShapeSetMaterial(material) ==
    /\ shape' = [shape EXCEPT !.material = material]
    /\ last' = Call("Shape.material", material, Ok(<<>>))
    /\ UNCHANGED <<camera, sphere, xs, render, failures>>

\* Sphere::set_transform, which stores any matrix
SphereSetTransform(transform) ==
    /\ render.pc = "idle"
    /\ sphere' = [sphere EXCEPT !.transform = transform]
    /\ last' = Call("Sphere.set_transform", transform, Ok(<<>>))
    /\ UNCHANGED <<camera, shape, xs, render, failures>>

\* the camera and the shape: construction, set_transform, ray_for_pixel
Init == InitWith(Cameras, {ShapeNewValue(m) : m \in Models})

Next ==
    \/ \E t \in TransformSet : CameraSetTransform(t)
    \/ \E x \in 0..(MaxSize + 1), y \in 0..(MaxSize + 1) : CameraRayForPixel(x, y)
    \/ \E t \in TransformSet : ShapeSetTransform(t)
    \/ \E m \in Materials : ShapeSetMaterial(m)

Spec == Init /\ [][Next]_vars

(***************************************************************************)
(* Camera::render, one loop iteration at a time.                           *)
(***************************************************************************)
\* Camera::render up to the first iteration
RenderBegin ==
    /\ render.pc = "idle"
    /\ render' = [Idle EXCEPT !.pc = "loop", !.image = CanvasNew(camera.hsize, camera.vsize)]
    /\ last' = Call("Camera.render", <<>>, [tag |-> "Running", err |-> "", val |-> <<>>])
    /\ UNCHANGED <<camera, shape, sphere, xs, failures>>

\* what a finished render leaves: the position frozen where the loop stopped, the
\* returned value in last, and a failure pushed onto failures
RenderReturn(body, visited) ==
    /\ render' = [render EXCEPT !.pc = "idle", !.image = NoCanvas, !.visited = visited]
    /\ last' = Call("Camera.render", <<>>,
                    [tag |-> body.tag, err |-> body.err, val |-> body.image])
    /\ failures' = IF body.tag = "Err"
                   THEN <<[error |-> body.err, step |-> body.step, cause |-> body.cause]>>
                        \o (IF failures = <<>> THEN <<>> ELSE <<failures[1]>>)
                   ELSE failures

\* a loop that carries on with the next pixel after a failed one
RenderStepCarryOn ==
    /\ render.pc = "loop"
    /\ \E body \in {PixelBody(camera, sphere, render.image, render.x, render.y)} :
       LET visited == Append(render.visited, <<render.x, render.y>>)
           more == render.x + 1 < camera.hsize \/ render.y + 1 < camera.vsize
       IN  IF more
           THEN /\ render' = [render EXCEPT
                        !.x = IF render.x + 1 < camera.hsize THEN render.x + 1 ELSE 0,
                        !.y = IF render.x + 1 < camera.hsize THEN render.y ELSE render.y + 1,
                        !.image = IF body.tag = "Ok" THEN body.image ELSE render.image,
                        !.visited = visited]
                /\ UNCHANGED <<last, failures>>
           ELSE RenderReturn(body, visited)
    /\ UNCHANGED <<camera, shape, sphere, xs>>

\* Camera::render: one iteration and, after the last or a failing one, the return
RenderStep ==
    /\ render.pc = "loop"
    /\ \E body \in {PixelBody(camera, sphere, render.image, render.x, render.y)} :
       LET visited == Append(render.visited, <<render.x, render.y>>)
           more == render.x + 1 < camera.hsize \/ render.y + 1 < camera.vsize
       IN  IF body.tag = "Ok" /\ more
           THEN /\ render' = [render EXCEPT
                        !.x = IF render.x + 1 < camera.hsize THEN render.x + 1 ELSE 0,
                        !.y = IF render.x + 1 < camera.hsize THEN render.y ELSE render.y + 1,
                        !.image = body.image,
                        !.visited = visited]
                /\ UNCHANGED <<last, failures>>
           ELSE RenderReturn(body, visited)
    /\ UNCHANGED <<camera, shape, sphere, xs>>

InitRender == InitWith(Cameras, {ShapeNewValue("Sphere")})

NextRender ==
    \/ \E t \in TransformSet : CameraSetTransform(t)
    \/ \E t \in TransformSet : SphereSetTransform(t)
    \/ RenderBegin
    \/ RenderStep

SpecRender == InitRender /\ [][NextRender]_vars

(***************************************************************************)
(* Intersections: the collection grown entry by entry, and hit().          *)
(***************************************************************************)
HitEntries ==
    {Intersection(t, o) : t \in (-2)..MaxT, o \in {SphereNewValue, [transform |-> TRANSLATE]}}

\* Intersections::new(vec![])
IntersectionsNew ==
    /\ xs' = <<>>
    /\ last' = Call("Intersections.new", <<>>, Ok(<<>>))
    /\ UNCHANGED <<camera, shape, sphere, render, failures>>

\* a push onto the public vector of the collection
IntersectionsPush(i) ==
    /\ Len(xs) < MaxLen
    /\ xs' = Append(xs, i)
    /\ last' = Call("Intersections.push", i, Ok(<<>>))
    /\ UNCHANGED <<camera, shape, sphere, render, failures>>

IntersectionsHit ==
    /\ last' = Call("Intersections.hit", <<>>, Ok(Hit(xs)))
    /\ UNCHANGED <<camera, shape, sphere, xs, render, failures>>

InitHit == InitWith({CameraNewValue(1, 1, FieldOfView)}, {ShapeNewValue("Sphere")})

NextHit ==
    \/ IntersectionsNew
    \/ \E i \in HitEntries : IntersectionsPush(i)
    \/ IntersectionsHit

SpecHit == InitHit /\ [][NextHit]_vars

(***************************************************************************)
(* Sphere: set_transform and intersect.  The rays have a direction that is *)
(* not the zero vector.                                                    *)
(***************************************************************************)
Half == Scale \div 2

RayOrigins ==
    {Point(0, y, z) : y \in {0, Half, Scale, 2 * Scale}, z \in {-5 * Scale, 0, 5 * Scale}}

RayDirections == {Vector(0, 0, Scale), Vector(0, Scale, Scale), Vector(Half, 0, -Scale)}

Rays == {Ray(o, d) : o \in RayOrigins, d \in RayDirections}

SphereIntersectCall(ray) ==
    /\ render.pc = "idle"
    /\ last' = Call("Sphere.intersect", ray, SphereIntersect(sphere, ray))
    /\ UNCHANGED <<camera, shape, sphere, xs, render, failures>>

InitSphere == InitWith({CameraNewValue(1, 1, FieldOfView)}, {ShapeNewValue("Sphere")})

NextSphere ==
    \/ \E t \in TransformSet : SphereSetTransform(t)
    \/ \E r \in Rays : SphereIntersectCall(r)

SpecSphere == InitSphere /\ [][NextSphere]_vars

(***************************************************************************)
(* The loop body of Camera::render run once per pixel in any order.        *)
(***************************************************************************)
RECURSIVE RenderFrom(_, _, _, _)
RenderFrom(cam, world, image, order) ==
    \* Camera::render over the pixels of order: the canvas, or the first failure
    IF order = <<>> THEN [tag |-> "Ok", image |-> image]
    ELSE Eval(PixelBody(cam, world, image, Head(order)[1], Head(order)[2]),
              LAMBDA body :
                 IF body.tag = "Ok" THEN RenderFrom(cam, world, body.image, Tail(order))
                 ELSE [tag |-> body.tag, image |-> NoCanvas])

\* Camera::render as written: the nested loops, row by row
RenderSequential(cam, world) ==
    RenderFrom(cam, world, CanvasNew(cam.hsize, cam.vsize), RowMajor(cam.hsize, cam.vsize))

AnyOrderBegin ==
    /\ render.pc = "idle"
    /\ render' = [Idle EXCEPT !.pc = "any", !.image = CanvasNew(camera.hsize, camera.vsize),
                              !.pending = Cells(camera.hsize, camera.vsize)]
    /\ last' = Call("Camera.render", "any order", [tag |-> "Running", err |-> "", val |-> <<>>])
    /\ UNCHANGED <<camera, shape, sphere, xs, failures>>

AnyOrderPixel(c) ==
    /\ render.pc = "any"
    /\ c \in render.pending
    /\ \E body \in {PixelBody(camera, sphere, render.image, c[1], c[2])} :
           IF body.tag = "Ok" /\ render.pending # {c}
           THEN /\ render' = [render EXCEPT !.image = body.image, !.pending = @ \ {c}]
                /\ UNCHANGED last
           ELSE /\ render' = [render EXCEPT !.pc = "idle", !.image = NoCanvas,
                                            !.pending = @ \ {c}]
                /\ last' = Call("Camera.render", "any order",
                                [tag |-> body.tag, err |-> body.err, val |-> body.image])
    /\ UNCHANGED <<camera, shape, sphere, xs, failures>>

InitAnyOrder == InitWith(Cameras, {ShapeNewValue("Sphere")})

NextAnyOrder ==
    \/ \E t \in TransformSet : CameraSetTransform(t)
    \/ \E t \in TransformSet : SphereSetTransform(t)
    \/ AnyOrderBegin
    \/ \E c \in Cells(MaxSize, MaxSize) : AnyOrderPixel(c)

SpecAnyOrder == InitAnyOrder /\ [][NextAnyOrder]_vars

(***************************************************************************)
(* Shape::intersect: the ray is re-expressed through the cached inverse,   *)
(* handed to the model, and every t the model returns is wrapped.          *)
(***************************************************************************)
\* Ray::transformed(&m) as Shape::intersect uses it: no cast that can fail
TransformedBy(ray, M) == Ray(MulTuple(M, ray.origin), MulTuple(M, ray.direction))

\* TestModel::local_intersect: saves the ray and returns no t
TestModelLocalIntersect(local_ray) == <<>>

\* the sphere model's local_intersect: the roots of the quadratic, or nothing
SphereLocalIntersect(local_ray) ==
    Eval(Quadratic(local_ray),
         LAMBDA q : IF q.discriminant < 0 THEN <<>> ELSE Roots(q.a, q.b, q.discriminant))

\* Model::local_intersect, dispatched on the model of the shape
LocalIntersect(model, local_ray) ==
    IF model = "TestModel" THEN TestModelLocalIntersect(local_ray)
    ELSE SphereLocalIntersect(local_ray)

\* intersect() mapping the ray through the transform instead of its inverse
ShapeIntersectByTransform(shp, ray) ==
    Eval(TransformedBy(ray, shp.transform),
         LAMBDA local_ray :
            Eval(LocalIntersect(shp.model, local_ray),
                 LAMBDA ts : [saved_ray |-> local_ray, returned |-> ts,
                              xs |-> [k \in 1..Len(ts) |-> Intersection(ts[k], shp)]]))

\* Shape::intersect(ray): the ray handed to the model (SAVED_RAY), the t values the
\* model returned, and the Intersections returned
ShapeIntersect(shp, ray) ==
    Eval(TransformedBy(ray, shp.inverse),
         LAMBDA local_ray :
            Eval(LocalIntersect(shp.model, local_ray),
                 LAMBDA ts : [saved_ray |-> local_ray, returned |-> ts,
                              xs |-> [k \in 1..Len(ts) |-> Intersection(ts[k], shp)]]))

ShapeIntersectCall(ray) ==
    /\ last' = Call("Shape.intersect", ray, Ok(ShapeIntersect(shape, ray)))
    /\ UNCHANGED <<camera, shape, sphere, xs, render, failures>>

InitShape == InitWith({CameraNewValue(1, 1, FieldOfView)}, {ShapeNewValue(m) : m \in Models})

NextShape ==
    \/ \E t \in TransformSet : ShapeSetTransform(t)
    \/ \E m \in Materials : ShapeSetMaterial(m)
    \/ \E r \in Rays : ShapeIntersectCall(r)

SpecShape == InitShape /\ [][NextShape]_vars

(***************************************************************************)
(* Color equality.  Components are counted in millionths here, so that     *)
(* the tolerance 0.00001 is the integer 10.                                *)
(***************************************************************************)
EQUALITY_EPSILON == 10

\* equal, within and at the tolerance, and far apart (0.0 and 1.0)
ColorLevels == {0, 9, 10, 1000000}

Colors == {Color(r, g, b) : r \in ColorLevels, g \in ColorLevels, b \in ColorLevels}

\* <Color as PartialEq>::eq: the signed differences against the tolerance
ColorEq(self, other) ==
    /\ (self[1] - other[1]) < EQUALITY_EPSILON
    /\ (self[2] - other[2]) < EQUALITY_EPSILON
    /\ (self[3] - other[3]) < EQUALITY_EPSILON

\* two colors are built, then compared
InitColor ==
    /\ camera = CameraNewValue(1, 1, FieldOfView)
    /\ shape = ShapeNewValue("TestModel")
    /\ sphere = SphereNewValue
    /\ xs = <<>>
    /\ render = Idle
    /\ failures = <<>>
    /\ last \in {Call("Color.new", <<a, b>>, Ok(<<>>)) : a \in Colors, b \in Colors}

ColorEqCall ==
    /\ last.op = "Color.new"
    /\ last' = Call("Color.eq", last.arg, Ok(ColorEq(last.arg[1], last.arg[2])))
    /\ UNCHANGED <<camera, shape, sphere, xs, render, failures>>

NextColor == ColorEqCall

SpecColor == InitColor /\ [][NextColor]_vars

(***************************************************************************)
(* Claims about set_transform and ray_for_pixel, checked under Spec.       *)
(***************************************************************************)

\* C1: a Camera.set_transform that fails returns NoInverse and leaves the camera,
\* stored transform and cached inverse alike, exactly as it was before the call.
C1_CameraSetTransformAtomic ==
    [][(last'.op = "Camera.set_transform" /\ Determinant(last'.arg) = 0)
         => (last'.ret = Err("NoInverse") /\ camera' = camera)]_vars

\* C2: Shape.set_transform(t) with t non-invertible returns NoInverse and changes
\* nothing of the shape; with t invertible it returns Ok, stores t and caches a matrix
\* whose product with t is the identity, and keeps material and model.
C2_ShapeSetTransform ==
    [][last'.op = "Shape.set_transform"
         => IF Determinant(last'.arg) = 0
            THEN last'.ret = Err("NoInverse") /\ shape' = shape
            ELSE /\ last'.ret.tag = "Ok"
                 /\ shape'.transform = last'.arg
                 /\ Mul(last'.arg, shape'.inverse) = IDENTITY
                 /\ shape'.material = shape.material
                 /\ shape'.model = shape.model]_vars

\* a failed Shape.set_transform on a shape whose transform and material were changed
C2_Witness ==
    /\ last.op = "Shape.set_transform"
    /\ last.ret.tag = "Err"
    /\ shape.transform = TRANSLATE
    /\ shape.inverse = UNTRANSLATE
    /\ shape.material = "ambient"

\* C3: Camera.ray_for_pixel(x, y) returns PixelOutOfBounds whenever x >= hsize or
\* y >= vsize, and never returns it for a pixel of the grid.
C3_PixelOutOfBounds ==
    last.op = "Camera.ray_for_pixel"
        => ((last.arg[1] >= camera.hsize \/ last.arg[2] >= camera.vsize)
              <=> last.ret = Err("PixelOutOfBounds"))

\* C9: after any sequence of set_transform calls the cached inverse of the camera
\* and of the shape is the inverse of the transform stored beside it, and
\* ray_for_pixel never fails with NoInverse.
C9_InverseConsistent ==
    /\ camera.inverse.some
    /\ Mul(camera.transform, camera.inverse.val) = IDENTITY
    /\ Mul(shape.transform, shape.inverse) = IDENTITY
    /\ (last.op = "Camera.ray_for_pixel" => last.ret.err # "NoInverse")

(***************************************************************************)
(* Claims about Camera::render, checked under SpecRender.                  *)
(***************************************************************************)
Returned == last.op = "Camera.render" /\ last.ret.tag # "Running"

\* the pixel at which ray generation or color resolution fails
RayFails(c) == RayForPixel(camera, c[1], c[2]).tag = "Err"
ColorFails(c) == ColorFrom(sphere, RayForPixel(camera, c[1], c[2]).val).tag = "Err"
PixelFails(c) == RayFails(c) \/ ColorFails(c)

\* C6: render visits the pixels in row-major order; it returns an error, and no
\* canvas, at the first pixel that fails, tagged RayForPixel when the ray generation
\* failed and ColorAt when color_from failed, visiting no later pixel; it returns a
\* canvas only after every pixel succeeded.
C6_RenderAllOrNothing ==
    Returned =>
        LET order == RowMajor(camera.hsize, camera.vsize)
            n == Len(render.visited)
        IN  /\ n >= 1 /\ n <= Len(order)
            /\ render.visited = SubSeq(order, 1, n)
            /\ \A k \in 1..(n - 1) : ~PixelFails(order[k])
            /\ IF PixelFails(order[n])
               THEN /\ last.ret.tag = "Err"
                    /\ last.ret.val = NoCanvas
                    /\ last.ret.err = IF RayFails(order[n]) THEN "RayForPixel" ELSE "ColorAt"
               ELSE /\ last.ret.tag = "Ok"
                    /\ n = Len(order)

\* a render that failed at a pixel other than the first
C6_Witness ==
    /\ Returned
    /\ last.ret.tag = "Err"
    /\ Len(render.visited) = 2
    /\ Len(render.visited) < camera.hsize * camera.vsize

\* C7: two failed renders that failed in the same call with different underlying
\* errors return distinguishable errors.
C7_CauseKept ==
    (/\ Len(failures) = 2
     /\ failures[1].step = failures[2].step
     /\ failures[1].cause # failures[2].cause)
        => failures[1].error # failures[2].error

\* C8: a successful render returns a canvas of hsize x vsize pixels, the pixel at
\* (x, y) holding world.color_from(ray_for_pixel(x, y)); every pixel of the grid is
\* visited exactly once, none outside it, and no write into the canvas fails.
C8_RenderImage ==
    Returned =>
        /\ last.ret.tag # "Panic"
        /\ last.ret.tag = "Ok" =>
            LET grid == Cells(camera.hsize, camera.vsize)
                image == last.ret.val
            IN  /\ image.width = camera.hsize /\ image.height = camera.vsize
                /\ DOMAIN image.pixels = grid
                /\ \A c \in grid :
                     image.pixels[c] = ColorFrom(sphere, RayForPixel(camera, c[1], c[2]).val).val
                /\ Len(render.visited) = Cardinality(grid)
                /\ {render.visited[k] : k \in 1..Len(render.visited)} = grid

\* a successful render of more than one pixel whose pixels are not all one color
C8_Witness ==
    /\ Returned
    /\ last.ret.tag = "Ok"
    /\ camera.hsize * camera.vsize > 1
    /\ \E c, d \in DOMAIN last.ret.val.pixels : last.ret.val.pixels[c] # last.ret.val.pixels[d]

(***************************************************************************)
(* Claims about hit(), checked under SpecHit.                              *)
(***************************************************************************)
Injections(n) == {f \in [1..n -> 1..n] : \A i, j \in 1..n : f[i] = f[j] => i = j}

\* the collections holding the entries of s in every insertion order
Reorderings(s) == {[k \in 1..Len(s) |-> s[f[k]]] : f \in Injections(Len(s))}

\* C4: hit() returns none when no entry has t >= 0, and else an entry of the
\* collection with t >= 0 whose t is the least t >= 0; whatever the insertion order of
\* the same entries, hit() returns that same t.
C4_HitIsLeastNonNegative ==
    last.op = "Intersections.hit" =>
        LET h == last.ret.val
            front == {k \in 1..Len(xs) : xs[k].t >= 0}
        IN  IF front = {}
            THEN /\ h = None
                 /\ \A p \in Reorderings(xs) : Hit(p) = None
            ELSE /\ h.some
                 /\ h.val.t >= 0
                 /\ \E k \in 1..Len(xs) : xs[k] = h.val
                 /\ \A k \in front : h.val.t <= xs[k].t
                 /\ \A p \in Reorderings(xs) : Hit(p).some /\ Hit(p).val.t = h.val.t

\* a hit that is neither the first entry nor the entry of least t, behind a negative one
C4_Witness ==
    /\ last.op = "Intersections.hit"
    /\ Len(xs) = 3
    /\ xs[1].t > 0 /\ xs[2].t < 0 /\ xs[3].t = 0
    /\ last.ret.val = Some(xs[3])

(***************************************************************************)
(* Claims about Sphere::intersect, checked under SpecSphere.               *)
(***************************************************************************)
\* the quadratic of the last intersected ray in the space of the sphere
LocalQuadratic == Quadratic(Transformed(last.arg, Inverse(sphere.transform).val).val)

\* C5: a sphere intersection that succeeds is empty exactly when the discriminant of
\* the local quadratic is negative; otherwise it holds exactly two entries t1 <= t2
\* of this sphere, equal on a zero discriminant, whose sum is -b / a and whose
\* difference is sqrt(discriminant) / a up to the rounding of the last digit, with
\* negative values kept.
C5_SphereRoots ==
    (last.op = "Sphere.intersect" /\ last.ret.tag = "Ok") =>
        LET q == LocalQuadratic
            ts == last.ret.val
            root == Sqrt(q.discriminant)
        IN  /\ ts = <<>> <=> q.discriminant < 0
            /\ q.discriminant >= 0 =>
                 /\ Len(ts) = 2
                 /\ ts[1].object = sphere /\ ts[2].object = sphere
                 /\ ts[1].t <= ts[2].t
                 /\ q.discriminant = 0 => ts[1].t = ts[2].t
                 /\ root * root <= q.discriminant /\ q.discriminant < (root + 1) * (root + 1)
                 /\ q.a * (ts[1].t + ts[2].t) <= -q.b * Scale
                 /\ -q.b * Scale < q.a * (ts[1].t + ts[2].t + 2)
                 /\ q.a * (ts[2].t - ts[1].t - 1) < root * Scale
                 /\ root * Scale < q.a * (ts[2].t - ts[1].t + 1)

\* a tangent ray: two equal entries
C5_Witness ==
    /\ last.op = "Sphere.intersect"
    /\ last.ret.tag = "Ok"
    /\ LocalQuadratic.discriminant = 0
    /\ Len(last.ret.val) = 2
    /\ last.ret.val[1].t = last.ret.val[2].t

\* a sphere behind the ray: two negative entries, both returned
C5_WitnessBehind ==
    /\ last.op = "Sphere.intersect"
    /\ last.ret.tag = "Ok"
    /\ Len(last.ret.val) = 2
    /\ last.ret.val[1].t < last.ret.val[2].t
    /\ last.ret.val[2].t < 0

(***************************************************************************)
(* Claims about the order of the pixels, checked under SpecAnyOrder.       *)
(***************************************************************************)
\* C10: running the loop body once per pixel in any order succeeds exactly when the
\* row-major loop succeeds, and then yields the canvas the row-major loop yields.
C10_AnyOrderSameImage ==
    (last.op = "Camera.render" /\ last.arg = "any order" /\ last.ret.tag # "Running") =>
        LET seq == RenderSequential(camera, sphere)
        IN  /\ last.ret.tag = "Ok" <=> seq.tag = "Ok"
            /\ last.ret.tag = "Ok" => last.ret.val = seq.image

\* a finished render of four pixels in an order that is not row-major
C10_Witness ==
    /\ last.op = "Camera.render" /\ last.arg = "any order"
    /\ last.ret.tag = "Ok"
    /\ camera.hsize = 2 /\ camera.vsize = 2
    /\ render.pending = {}
    /\ \E c, d \in DOMAIN last.ret.val.pixels : last.ret.val.pixels[c] # last.ret.val.pixels[d]

(***************************************************************************)
(* Claims about Shape::intersect, checked under SpecShape.                 *)
(***************************************************************************)

\* C11: Shape.intersect(ray) hands the model the ray mapped through the cached
\* inverse, whose image under the shape's transform is the ray again; it returns one
\* Intersection per t the model returned, in the same order and with the same t, each
\* referencing the shape; and it leaves the shape as it was.
C11_ShapeIntersect ==
    [][last'.op = "Shape.intersect"
         => LET r == last'.ret.val
                ray == last'.arg
            IN  /\ shape' = shape
                /\ r.saved_ray = TransformedBy(ray, shape.inverse)
                /\ MulTuple(shape.transform, r.saved_ray.origin) = ray.origin
                /\ MulTuple(shape.transform, r.saved_ray.direction) = ray.direction
                /\ r.returned = LocalIntersect(shape.model, r.saved_ray)
                /\ Len(r.xs) = Len(r.returned)
                /\ \A k \in 1..Len(r.xs) :
                     r.xs[k].t = r.returned[k] /\ r.xs[k].object = shape]_vars

\* a translated sphere shape grazed behind the ray origin: two equal negative t, both
\* returned in order
C11_Witness ==
    /\ last.op = "Shape.intersect"
    /\ shape.transform = TRANSLATE
    /\ shape.model = "Sphere"
    /\ Len(last.ret.val.xs) = 2
    /\ last.ret.val.xs[1].t = last.ret.val.xs[2].t
    /\ last.ret.val.xs[1].t < 0
    /\ last.ret.val.saved_ray # last.arg

(***************************************************************************)
(* Claims about Color equality, checked under SpecColor.                   *)
(***************************************************************************)
Abs(n) == IF n < 0 THEN -n ELSE n

\* C12: Color equality is a symmetric tolerance comparison: a == b gives what b == a
\* gives, and a == b holds only if every component of a and b differs by less than
\* 0.00001 in absolute value.
C12_ColorEqSymmetric ==
    last.op = "Color.eq"
      => LET a == last.arg[1]
             b == last.arg[2]
         IN  /\ last.ret.val = ColorEq(b, a)
             /\ last.ret.val
                  => \A i \in 1..3 : Abs(a[i] - b[i]) < EQUALITY_EPSILON
====
